---- MODULE Spec2Model ----
(***************************************************************************)
(* Model of sufat's render_context.rs: RenderContext::new (capability      *)
(* negotiation, instance creation, debug messenger, self-test, surface),   *)
(* the debug-utils callback, and Drop for RenderContext.                   *)
(*                                                                         *)
(* Names are C strings, modelled as tuples of bytes (without the NUL).     *)
(* Flag sets (DebugUtilsMessageSeverityFlagsEXT, ...TypeFlagsEXT) are      *)
(* modelled as sets of flag names; `|` is union, empty() is {}.            *)
(* `log` holds the records the log crate's macros hand to the logger, in   *)
(* order: a macro call at a level above log::max_level() emits nothing.    *)
(***************************************************************************)
EXTENDS Naturals, Sequences, FiniteSets

(* ------------------------------ bounds ------------------------------- *)

\* most extension properties the driver reports in one enumeration
MaxExtProps == 4
\* most layer properties the driver reports in one enumeration
MaxLayerProps == 2

(* ------------------------------- names ------------------------------- *)

\* "VK_KHR_surface"
KhrSurfaceName ==
    <<86, 75, 95, 75, 72, 82, 95, 115, 117, 114, 102, 97, 99, 101>>
\* "VK_KHR_xcb_surface"
KhrXcbSurfaceName ==
    <<86, 75, 95, 75, 72, 82, 95, 120, 99, 98, 95, 115, 117, 114, 102, 97,
      99, 101>>
\* "VK_KHR_wayland_surface"
KhrWaylandSurfaceName ==
    <<86, 75, 95, 75, 72, 82, 95, 119, 97, 121, 108, 97, 110, 100, 95,
      115, 117, 114, 102, 97, 99, 101>>
\* "VK_EXT_debug_utils", DebugUtils::name()
DebugUtilsName ==
    <<86, 75, 95, 69, 88, 84, 95, 100, 101, 98, 117, 103, 95, 117, 116,
      105, 108, 115>>
\* "vk_ext_debug_utils": differs from DebugUtilsName in case only
LowerDebugUtilsName ==
    <<118, 107, 95, 101, 120, 116, 95, 100, 101, 98, 117, 103, 95, 117,
      116, 105, 108, 115>>
\* "VK_EXT_debug_util": a proper prefix of DebugUtilsName
ShortDebugUtilsName ==
    <<86, 75, 95, 69, 88, 84, 95, 100, 101, 98, 117, 103, 95, 117, 116,
      105, 108>>
\* "VK_LAYER_KHRONOS_validation"
ValidationLayerName ==
    <<86, 75, 95, 76, 65, 89, 69, 82, 95, 75, 72, 82, 79, 78, 79, 83, 95,
      118, 97, 108, 105, 100, 97, 116, 105, 111, 110>>
\* "vk_layer_khronos_validation": differs in case only
LowerValidationLayerName ==
    <<118, 107, 95, 108, 97, 121, 101, 114, 95, 107, 104, 114, 111, 110,
      111, 115, 95, 118, 97, 108, 105, 100, 97, 116, 105, 111, 110>>
\* "VK_LAYER_LUNARG_api_dump"
ApiDumpLayerName ==
    <<86, 75, 95, 76, 65, 89, 69, 82, 95, 76, 85, 78, 65, 82, 71, 95, 97,
      112, 105, 95, 100, 117, 109, 112>>
\* "test"
TestMessage == <<116, 101, 115, 116>>
\* "testing"
TestIdName == <<116, 101, 115, 116, 105, 110, 103>>

\* what ash_window::enumerate_required_extensions returns, per platform
PlatformExtensionLists ==
    { <<KhrSurfaceName, KhrXcbSurfaceName>>,
      <<KhrSurfaceName, KhrWaylandSurfaceName>> }

\* the names a driver may report as instance extensions
ExtUniverse ==
    { KhrSurfaceName, KhrXcbSurfaceName, KhrWaylandSurfaceName,
      DebugUtilsName, LowerDebugUtilsName, ShortDebugUtilsName }

\* the names a driver may report as instance layers
LayerUniverse ==
    { ValidationLayerName, LowerValidationLayerName, ApiDumpLayerName }

RECURSIVE SetToSeq(_)
SetToSeq(S) ==
    IF S = {} THEN <<>>
    ELSE LET x == CHOOSE y \in S : TRUE IN <<x>> \o SetToSeq(S \ {x})

\* the reports of at most n names drawn from U
Reports(U, n) == { SetToSeq(S) : S \in { T \in SUBSET U : Cardinality(T) <= n } }

(* --------------------------- C string order -------------------------- *)

\* a variant of CStr::cmp that folds ASCII case before comparing
Fold(b) == IF b >= 65 /\ b <= 90 THEN b + 32 ELSE b

RECURSIVE CStrCmpFoldFrom(_, _, _)
CStrCmpFoldFrom(a, b, i) ==
    IF i > Len(a) /\ i > Len(b) THEN "Equal"
    ELSE IF i > Len(a) THEN "Less"
    ELSE IF i > Len(b) THEN "Greater"
    ELSE IF Fold(a[i]) < Fold(b[i]) THEN "Less"
    ELSE IF Fold(a[i]) > Fold(b[i]) THEN "Greater"
    ELSE CStrCmpFoldFrom(a, b, i + 1)

CStrCmpFold(a, b) == CStrCmpFoldFrom(a, b, 1)

\* CStr's Ord: bytewise lexicographic order of the bytes before the NUL
RECURSIVE CStrCmpFrom(_, _, _)
CStrCmpFrom(a, b, i) ==
    IF i > Len(a) /\ i > Len(b) THEN "Equal"
    ELSE IF i > Len(a) THEN "Less"
    ELSE IF i > Len(b) THEN "Greater"
    ELSE IF a[i] < b[i] THEN "Less"
    ELSE IF a[i] > b[i] THEN "Greater"
    ELSE CStrCmpFrom(a, b, i + 1)

CStrCmp(a, b) == CStrCmpFrom(a, b, 1)

\* Ordering::is_eq
is_eq(ordering) == ordering = "Equal"

(* ----------------------- capability negotiation ---------------------- *)

\* props.iter().find_map(|p| needle.cmp(p).is_eq().then_some(()))
RECURSIVE find_map(_, _, _)
find_map(needle, props, i) ==
    IF i > Len(props) THEN "None"
    ELSE IF is_eq(CStrCmp(needle, props[i])) THEN "Some"
    ELSE find_map(needle, props, i + 1)

\* required.iter().map(.. .ok_or(needle)).filter_map(|i| i.err().copied())
\* .collect(): the required names with no match, in the order of `required`
RECURSIVE MissingFrom(_, _, _)
MissingFrom(required, props, i) ==
    IF i > Len(required) THEN <<>>
    ELSE (IF find_map(required[i], props, 1) = "None"
          THEN <<required[i]>> ELSE <<>>)
         \o MissingFrom(required, props, i + 1)

MissingNames(required, props) == MissingFrom(required, props, 1)

\* the array debug_layer_names
debug_layer_names == <<ValidationLayerName>>

\* a variant of the outcome decision that tests the extensions first
OutcomeExtFirst(exts_missing, layers_missing) ==
    IF exts_missing THEN "MissingExtension"
    ELSE IF layers_missing THEN "MissingLayer"
    ELSE "Proceed"

\* the if / else-if chain that picks the error, or goes on to create_instance
Outcome(exts_missing, layers_missing) ==
    IF layers_missing /\ exts_missing THEN "MissingExtensionAndLayer"
    ELSE IF layers_missing THEN "MissingLayer"
    ELSE IF exts_missing THEN "MissingExtension"
    ELSE "Proceed"

(* ----------------------------- variables ----------------------------- *)

VARIABLES
    max_level,            \* log::max_level(), the logger's LevelFilter
    platform_extensions,  \* ash_window::enumerate_required_extensions(..)
    ext_props,            \* enumerate_instance_extension_properties(None)
    layer_props,          \* enumerate_instance_layer_properties()
    pc,                   \* position in main / RenderContext::new / drop
    panic_site,           \* which unwrap() panicked, "none" if none did
    vk_version,           \* the api version put in ApplicationInfo
    required_extensions,  \* Vec of required extension names
    exts_missing_names,   \* the Vec exts_missing (before it is shadowed)
    layers_missing_names, \* the Vec layers_missing (before it is shadowed)
    exts_missing,         \* the bool exts_missing
    layers_missing,       \* the bool layers_missing
    result,               \* what new returned: "None" until it returns
    context,              \* the RenderContext, when one exists
    messenger_result,     \* native result of create_debug_utils_messenger
    debug_callback,       \* the Option<DebugUtilsMessengerEXT> debug_callback
    debug_messenger_log_level, \* the severity mask given to the messenger
    live,                 \* native objects created and not yet destroyed
    native_calls,         \* native create/destroy/submit calls, in order
    submitted,            \* messages given to submit_debug_utils_message
    log,                  \* calls of log macros, in order
    cb_args,              \* arguments of a direct callback invocation
    control_flow,         \* the event loop's ControlFlow
    window_visible        \* whether the window is shown

env == <<max_level, platform_extensions, ext_props, layer_props>>
shell == <<control_flow, window_visible>>
negotiation == <<required_extensions, exts_missing_names,
                 layers_missing_names, exts_missing, layers_missing>>
native == <<messenger_result, debug_callback, debug_messenger_log_level,
            live, native_calls, submitted>>
vars == <<env, shell, pc, panic_site, vk_version, negotiation, result,
          context, native, log, cb_args>>

(* ------------------------------ logging ------------------------------ *)

\* the discriminants of log::LevelFilter and log::Level, which comparisons
\* between the two compare
LevelFilterOrd ==
    [Off |-> 0, Error |-> 1, Warn |-> 2, Info |-> 3, Debug |-> 4, Trace |-> 5]
LevelOrd ==
    [Error |-> 1, Warn |-> 2, Info |-> 3, Debug |-> 4, Trace |-> 5]

\* the test every log macro makes before it emits: lvl <= log::max_level()
LogEnabled(level) == LevelOrd[level] <= LevelFilterOrd[max_level]

\* the records one log macro call emits, none or one; `record` is what the
\* call formats
Emit(level, record) == IF LogEnabled(level) THEN <<record>> ELSE <<>>

\* a log macro call that formats one name (or nothing: name = <<>>)
LogLine(level, text, name) ==
    Emit(level, [level |-> level, text |-> text, name |-> name, type |-> {},
                 id_name |-> <<>>, id_num |-> 0, message |-> <<>>])

\* a variant that logs the first missing name only
LogEachFirstOnly(text, names) ==
    IF names = <<>> THEN <<>> ELSE LogLine("Error", text, names[1])

\* for n in names { log::error!("<text> {:?}", n) }
RECURSIVE LogEachFrom(_, _, _)
LogEachFrom(text, names, i) ==
    IF i > Len(names) THEN <<>>
    ELSE LogLine("Error", text, names[i]) \o LogEachFrom(text, names, i + 1)

LogEach(text, names) == LogEachFrom(text, names, 1)

(* ------------------------ debug message sink ------------------------- *)

Severities == {"VERBOSE", "INFO", "WARNING", "ERROR"}
MessageTypes == {"GENERAL", "VALIDATION", "PERFORMANCE"}

\* log_level >= Level::X
FilterGe(log_level, level) == LevelFilterOrd[log_level] >= LevelOrd[level]

\* a variant that turns VERBOSE on from Level::Debug upwards
SeverityMaskDebug(log_level) ==
    (IF FilterGe(log_level, "Error") THEN {"ERROR"} ELSE {})
    \cup (IF FilterGe(log_level, "Warn") THEN {"WARNING"} ELSE {})
    \cup (IF FilterGe(log_level, "Info") THEN {"INFO"} ELSE {})
    \cup (IF FilterGe(log_level, "Debug") THEN {"VERBOSE"} ELSE {})

\* debug_messenger_log_level, built by the four `if log_level >= ..` tests
SeverityMask(log_level) ==
    (IF FilterGe(log_level, "Error") THEN {"ERROR"} ELSE {})
    \cup (IF FilterGe(log_level, "Warn") THEN {"WARNING"} ELSE {})
    \cup (IF FilterGe(log_level, "Info") THEN {"INFO"} ELSE {})
    \cup (IF FilterGe(log_level, "Trace") THEN {"VERBOSE"} ELSE {})

\* the message_type given to the messenger: GENERAL | PERFORMANCE | VALIDATION
MessengerTypes == {"GENERAL", "PERFORMANCE", "VALIDATION"}

\* safe_get: the byte at i, or 0 past the end
SafeGet(bytes, i) == IF i <= Len(bytes) THEN bytes[i] ELSE 0

\* b & 192 == TAG_CONT: a UTF-8 continuation byte
IsCont(b) == b >= 128 /\ b <= 191

\* utf8_char_width of a leading byte
Utf8CharWidth(b) ==
    IF b < 128 THEN 1
    ELSE IF b >= 194 /\ b <= 223 THEN 2
    ELSE IF b >= 224 /\ b <= 239 THEN 3
    ELSE IF b >= 240 /\ b <= 244 THEN 4
    ELSE 0

\* the second bytes a three- or four-byte sequence may have after `first`
SecondOk(first, second) ==
    \/ first = 224 /\ second >= 160 /\ second <= 191
    \/ first >= 225 /\ first <= 236 /\ IsCont(second)
    \/ first = 237 /\ second >= 128 /\ second <= 159
    \/ first >= 238 /\ first <= 239 /\ IsCont(second)
    \/ first = 240 /\ second >= 144 /\ second <= 191
    \/ first >= 241 /\ first <= 243 /\ IsCont(second)
    \/ first = 244 /\ second >= 128 /\ second <= 143

\* one step of Utf8Chunks at position i: the number of bytes taken and the
\* char they give, U+FFFD for a maximal invalid sequence
Utf8Step(bytes, i) ==
    LET b0 == bytes[i]
        b1 == SafeGet(bytes, i + 1)
        b2 == SafeGet(bytes, i + 2)
        b3 == SafeGet(bytes, i + 3)
        w  == Utf8CharWidth(b0)
        bad(n) == [taken |-> n, char |-> 65533]
    IN CASE w = 1 -> [taken |-> 1, char |-> b0]
         [] w = 2 -> IF ~IsCont(b1) THEN bad(1)
                     ELSE [taken |-> 2,
                           char |-> (b0 - 192) * 64 + (b1 - 128)]
         [] w = 3 -> IF ~SecondOk(b0, b1) THEN bad(1)
                     ELSE IF ~IsCont(b2) THEN bad(2)
                     ELSE [taken |-> 3,
                           char |-> (b0 - 224) * 4096 + (b1 - 128) * 64
                                    + (b2 - 128)]
         [] w = 4 -> IF ~SecondOk(b0, b1) THEN bad(1)
                     ELSE IF ~IsCont(b2) THEN bad(2)
                     ELSE IF ~IsCont(b3) THEN bad(3)
                     ELSE [taken |-> 4,
                           char |-> (b0 - 240) * 262144 + (b1 - 128) * 4096
                                    + (b2 - 128) * 64 + (b3 - 128)]
         [] OTHER -> bad(1)

RECURSIVE ToStringLossyFrom(_, _)
ToStringLossyFrom(bytes, i) ==
    IF i > Len(bytes) THEN <<>>
    ELSE LET step == Utf8Step(bytes, i)
         IN <<step.char>> \o ToStringLossyFrom(bytes, i + step.taken)

\* CStr::to_string_lossy: the chars of the bytes read as UTF-8, each maximal
\* invalid sequence replaced by one U+FFFD
ToStringLossy(bytes) == ToStringLossyFrom(bytes, 1)

\* if p.is_null() { Cow::from("") } else { CStr::from_ptr(p).to_string_lossy() }
CStrArg(p) == IF p.null THEN <<>> ELSE ToStringLossy(p.bytes)

\* a variant whose WARNING arm calls log::error!
SeverityArmWarnAsError(message_severity) ==
    CASE message_severity = {"ERROR"}   -> "Error"
      [] message_severity = {"WARNING"} -> "Error"
      [] message_severity = {"INFO"}    -> "Info"
      [] message_severity = {"VERBOSE"} -> "Trace"
      [] OTHER                          -> "unreachable"

\* a variant that tests the most severe bit that is set and has a catch-all
\* arm instead of unreachable!()
SeverityArmHighestBit(message_severity) ==
    IF "ERROR" \in message_severity THEN "Error"
    ELSE IF "WARNING" \in message_severity THEN "Warn"
    ELSE IF "INFO" \in message_severity THEN "Info"
    ELSE "Trace"

\* the arms of `match message_severity`: the log macro each one calls
SeverityArm(message_severity) ==
    CASE message_severity = {"ERROR"}   -> "Error"
      [] message_severity = {"WARNING"} -> "Warn"
      [] message_severity = {"INFO"}    -> "Info"
      [] message_severity = {"VERBOSE"} -> "Trace"
      [] OTHER                          -> "unreachable"

\* what one call of the callback does: it panics, or it calls the log macro
\* of its arm, which emits at most one record
vulkan_debug_callback(message_severity, message_type, callback_data) ==
    LET arm == SeverityArm(message_severity)
    IN IF arm = "unreachable"
       THEN [panicked |-> TRUE, entries |-> <<>>]
       ELSE [panicked |-> FALSE,
             entries |->
                Emit(arm, [level |-> arm,
                           text |-> "vulkan debug utils.",
                           name |-> <<>>,
                           type |-> message_type,
                           id_name |-> CStrArg(callback_data.p_message_id_name),
                           id_num |-> callback_data.message_id_number,
                           message |-> CStrArg(callback_data.p_message)])]

\* the native vkSubmitDebugUtilsMessageEXT: the messenger's callback runs when
\* a messenger exists and the message's severity and type are in its masks
submit_debug_utils_message(messenger, mask, severity, type, callback_data) ==
    IF /\ messenger
       /\ severity \cap mask # {}
       /\ type \cap MessengerTypes # {}
    THEN vulkan_debug_callback(severity, type, callback_data)
    ELSE [panicked |-> FALSE, entries |-> <<>>]

Ptr(bytes) == [null |-> FALSE, bytes |-> bytes]
NullPtr == [null |-> TRUE, bytes |-> <<>>]

\* the callback_data test_debug_callback builds
TestCallbackData ==
    [p_message |-> Ptr(TestMessage),
     p_message_id_name |-> Ptr(TestIdName),
     message_id_number |-> 1]

\* a variant of the self-test that labels every message GENERAL
TestSubmissionsAllGeneral ==
    << [message_severity |-> {"ERROR"},   message_type |-> {"GENERAL"}],
       [message_severity |-> {"WARNING"}, message_type |-> {"GENERAL"}],
       [message_severity |-> {"INFO"},    message_type |-> {"GENERAL"}],
       [message_severity |-> {"VERBOSE"}, message_type |-> {"GENERAL"}] >>

\* the four submit_debug_utils_message calls of test_debug_callback
TestSubmissions ==
    << [message_severity |-> {"ERROR"},   message_type |-> {"GENERAL"}],
       [message_severity |-> {"WARNING"}, message_type |-> {"PERFORMANCE"}],
       [message_severity |-> {"INFO"},    message_type |-> {"VALIDATION"}],
       [message_severity |-> {"VERBOSE"}, message_type |-> {"GENERAL"}] >>

\* the outcomes of the submissions, in order
SubmitEach(messenger, mask, msgs) ==
    [i \in 1..Len(msgs) |->
        submit_debug_utils_message(messenger, mask, msgs[i].message_severity,
                                   msgs[i].message_type, TestCallbackData)]

RECURSIVE Flatten(_, _)
Flatten(outcomes, i) ==
    IF i > Len(outcomes) THEN <<>>
    ELSE outcomes[i].entries \o Flatten(outcomes, i + 1)

\* a variant that wraps the handle in Some whatever the result
OkOfAlwaysSome(r) == "Some"

\* Result::ok
OkOf(r) == IF r = "Ok" THEN "Some" ELSE "None"

(* ----------------------------- teardown ------------------------------ *)

\* a variant of drop that destroys in the order of acquisition
DropCallsAcquisitionOrder(callback) ==
    <<"destroy_instance">>
    \o (IF callback = "Some"
        THEN <<"destroy_debug_utils_messenger">> ELSE <<>>)
    \o <<"destroy_surface">>

\* the native destroy calls of Drop::drop, in order
DropCalls(callback) ==
    (IF callback = "Some"
     THEN <<"destroy_debug_utils_messenger">> ELSE <<>>)
    \o <<"destroy_surface", "destroy_instance">>

\* the native object each destroy call destroys
DestroyedBy ==
    [destroy_debug_utils_messenger |-> "messenger",
     destroy_surface |-> "surface",
     destroy_instance |-> "instance"]

LevelFilters == {"Off", "Error", "Warn", "Info", "Debug", "Trace"}

NoContext == [exists |-> FALSE, debug_callback |-> "None"]
NoArgs == [message_severity |-> {}, message_type |-> {},
           p_message_id_name |-> [null |-> TRUE, bytes |-> <<>>],
           p_message |-> [null |-> TRUE, bytes |-> <<>>],
           message_id_number |-> 0]

\* the program state at the call of RenderContext::new in main
Fresh ==
    /\ panic_site = "none"
    /\ vk_version = "unset"
    /\ required_extensions = <<>>
    /\ exts_missing_names = <<>>
    /\ layers_missing_names = <<>>
    /\ exts_missing = FALSE
    /\ layers_missing = FALSE
    /\ result = "None"
    /\ context = NoContext
    /\ messenger_result = "NotAttempted"
    /\ debug_callback = "None"
    /\ debug_messenger_log_level = {}
    /\ live = {}
    /\ native_calls = <<>>
    /\ submitted = <<>>
    /\ log = <<>>
    /\ control_flow = "Poll"
    /\ window_visible = FALSE

Init ==
    /\ max_level \in LevelFilters
    /\ platform_extensions \in PlatformExtensionLists
    /\ ext_props \in Reports(ExtUniverse, MaxExtProps)
    /\ layer_props \in Reports(LayerUniverse, MaxLayerProps)
    /\ pc = "load"
    /\ cb_args = NoArgs
    /\ Fresh

(* ------------------------- RenderContext::new ------------------------ *)

\* unsafe { Entry::load() }
LoadEntry ==
    /\ pc = "load"
    /\ \E ok \in BOOLEAN :
         IF ok
         THEN /\ pc' = "version"
              /\ result' = result
         ELSE /\ pc' = "returned"
              /\ result' = "UnableToLoadLib"
    /\ UNCHANGED <<env, shell, panic_site, vk_version, negotiation, context,
                   native, log, cb_args>>

\* entry.try_enumerate_instance_version().unwrap().unwrap_or(1.0.0)
QueryVersion ==
    /\ pc = "version"
    /\ \E r \in {"Err", "None", "Some"} :
         CASE r = "Err"  -> /\ pc' = "panicked"
                            /\ panic_site' = "version"
                            /\ vk_version' = vk_version
           [] r = "None" -> /\ pc' = "extensions"
                            /\ panic_site' = panic_site
                            /\ vk_version' = "floor_1_0_0"
           [] r = "Some" -> /\ pc' = "extensions"
                            /\ panic_site' = panic_site
                            /\ vk_version' = "reported"
    /\ UNCHANGED <<env, shell, negotiation, result, context, native, log, cb_args>>

\* required_extensions, ext_props, the Vec exts_missing, its log lines and the
\* bool exts_missing
NegotiateExtensions ==
    /\ pc = "extensions"
    /\ \E r \in {"Ok", "RequiredErr", "PropsErr"} :
         LET required == Append(platform_extensions, DebugUtilsName)
             missing  == MissingNames(required, ext_props)
         IN CASE r = "RequiredErr" ->
                   /\ pc' = "panicked"
                   /\ panic_site' = "required_extensions"
                   /\ UNCHANGED <<negotiation, log>>
              [] r = "PropsErr" ->
                   /\ pc' = "panicked"
                   /\ panic_site' = "extension_properties"
                   /\ required_extensions' = required
                   /\ UNCHANGED <<exts_missing_names, layers_missing_names,
                                  exts_missing, layers_missing, log>>
              [] r = "Ok" ->
                   /\ pc' = "layers"
                   /\ panic_site' = panic_site
                   /\ required_extensions' = required
                   /\ exts_missing_names' = missing
                   /\ exts_missing' = (Len(missing) > 0)
                   /\ log' = log \o LogEach("Missing extension", missing)
                   /\ UNCHANGED <<layers_missing_names, layers_missing>>
    /\ UNCHANGED <<env, shell, vk_version, result, context, native, cb_args>>

\* layer_props, the Vec layers_missing, its log lines, the bool
\* layers_missing, and the choice of the error or of the proceed path
NegotiateLayers ==
    /\ pc = "layers"
    /\ \E ok \in BOOLEAN :
         LET missing == MissingNames(debug_layer_names, layer_props)
             lines   == LogEach("Missing layer", missing)
             outcome == Outcome(exts_missing, Len(missing) # 0)
         IN IF ~ok
            THEN /\ pc' = "panicked"
                 /\ panic_site' = "layer_properties"
                 /\ UNCHANGED <<negotiation, result, log>>
            ELSE /\ panic_site' = panic_site
                 /\ layers_missing_names' = missing
                 /\ layers_missing' = (Len(missing) # 0)
                 /\ UNCHANGED <<required_extensions, exts_missing_names,
                                exts_missing>>
                 /\ IF outcome = "Proceed"
                    THEN /\ pc' = "create_instance"
                         /\ result' = result
                         /\ log' = log \o lines \o
                               LogLine("Debug",
                                   "Successfully found all layers", <<>>)
                    ELSE /\ pc' = "returned"
                         /\ result' = outcome
                         /\ log' = log \o lines
    /\ UNCHANGED <<env, shell, vk_version, context, native, cb_args>>

\* entry.create_instance(&create_info, None), and on success the severity mask
CreateInstance ==
    /\ pc = "create_instance"
    /\ native_calls' = Append(native_calls, "create_instance")
    /\ \E ok \in BOOLEAN :
         IF ok
         THEN /\ pc' = "create_messenger"
              /\ result' = result
              /\ live' = live \cup {"instance"}
              /\ log' = log \o
                     LogLine("Info", "Successfully created instance", <<>>)
              /\ debug_messenger_log_level' = SeverityMask(max_level)
         ELSE /\ pc' = "returned"
              /\ result' = "InstanceCreationFailed"
              /\ log' = log \o
                     LogLine("Error",
                       "We got to creating an instance but it failed", <<>>)
              /\ UNCHANGED <<live, debug_messenger_log_level>>
    /\ UNCHANGED <<env, shell, panic_site, vk_version, negotiation, context,
                   messenger_result, debug_callback, submitted, cb_args>>

\* debug_utils_loader.create_debug_utils_messenger(&debug_info, None).ok()
CreateDebugMessenger ==
    /\ pc = "create_messenger"
    /\ native_calls' = Append(native_calls, "create_debug_utils_messenger")
    /\ \E r \in {"Ok", "Err"} :
         /\ messenger_result' = r
         /\ debug_callback' = OkOf(r)
         /\ live' = IF r = "Ok" THEN live \cup {"messenger"} ELSE live
    /\ pc' = "self_test"
    /\ UNCHANGED <<env, shell, panic_site, vk_version, negotiation, result, context,
                   debug_messenger_log_level, submitted, log, cb_args>>

\* test_debug_callback(&debug_utils_loader): the four submissions, each routed
\* by the native API to the registered callback
TestDebugCallback ==
    /\ pc = "self_test"
    /\ LET outcomes == SubmitEach("messenger" \in live,
                                  debug_messenger_log_level, TestSubmissions)
       IN /\ submitted' = submitted \o TestSubmissions
          /\ native_calls' = native_calls \o
                [i \in 1..Len(TestSubmissions) |-> "submit_debug_utils_message"]
          /\ log' = log \o Flatten(outcomes, 1)
          /\ IF \E i \in 1..Len(outcomes) : outcomes[i].panicked
             THEN pc' = "panicked" /\ panic_site' = "callback"
             ELSE pc' = "create_surface" /\ panic_site' = panic_site
    /\ UNCHANGED <<env, shell, vk_version, negotiation, result, context,
                   messenger_result, debug_callback,
                   debug_messenger_log_level, live, cb_args>>

\* ash_window::create_surface(..).unwrap(), then Ok(RenderContext { .. })
CreateSurface ==
    /\ pc = "create_surface"
    /\ native_calls' = Append(native_calls, "create_surface")
    /\ \E ok \in BOOLEAN :
         IF ok
         THEN /\ pc' = "constructed"
              /\ panic_site' = panic_site
              /\ live' = live \cup {"surface"}
              /\ context' = [exists |-> TRUE,
                             debug_callback |-> debug_callback]
              /\ result' = "Ok"
         ELSE /\ pc' = "panicked"
              /\ panic_site' = "surface"
              /\ UNCHANGED <<live, context, result>>
    /\ UNCHANGED <<env, shell, vk_version, negotiation, messenger_result,
                   debug_callback, debug_messenger_log_level, submitted, log,
                   cb_args>>

(* ------------------------ Drop for RenderContext --------------------- *)

Drop ==
    /\ pc = "loop_destroyed"
    /\ context.exists
    /\ LET calls == DropCalls(context.debug_callback)
       IN /\ native_calls' = native_calls \o calls
          /\ live' = live \ { DestroyedBy[calls[i]] : i \in 1..Len(calls) }
    /\ log' = log \o LogLine("Info", "Destroying render context", <<>>)
    /\ context' = NoContext
    /\ pc' = "dropped"
    /\ UNCHANGED <<env, shell, panic_site, vk_version, negotiation, result,
                   messenger_result, debug_callback,
                   debug_messenger_log_level, submitted, cb_args>>

(* -------------------------------- main ------------------------------- *)

\* RenderContext::new(window.clone()).unwrap() in main
MainUnwrap ==
    /\ pc \in {"returned", "constructed"}
    /\ IF result = "Ok"
       THEN pc' = "run" /\ panic_site' = panic_site
       ELSE pc' = "panicked" /\ panic_site' = "main_unwrap"
    /\ UNCHANGED <<env, shell, vk_version, negotiation, result, context,
                   native, log, cb_args>>

\* the events the event loop hands to the closure; the window events carry
\* the id of the window they are for
Events ==
    {"NewEvents(Init)", "CloseRequested", "CloseRequested(other window)",
     "WindowEvent(other)", "LoopDestroyed", "other"}

\* the order in which the event loop delivers: NewEvents(Init) first and
\* once, LoopDestroyed last, always once exit was asked for
Deliverable(event) ==
    IF pc = "run" THEN event = "NewEvents(Init)"
    ELSE /\ pc = "event_loop"
         /\ event # "NewEvents(Init)"
         /\ control_flow = "Exit" => event = "LoopDestroyed"

\* the records the handler's debug! calls emit for an event
HandlerLog(event) ==
    CASE event = "CloseRequested" ->
            LogLine("Debug", "recieved shutdown request", <<>>)
      [] event = "LoopDestroyed" -> LogLine("Debug", "Loop exiting", <<>>)
      [] OTHER -> <<>>

\* one call of the closure given to event_loop.run
HandleEvent ==
    /\ \E event \in Events :
         /\ Deliverable(event)
         /\ log' = log \o HandlerLog(event)
         /\ CASE event = "NewEvents(Init)" ->
                    /\ control_flow' = "Poll"
                    /\ window_visible' = TRUE
                    /\ pc' = "event_loop"
              [] event = "CloseRequested" ->
                    /\ control_flow' = "Exit"
                    /\ window_visible' = FALSE
                    /\ pc' = pc
              [] event = "LoopDestroyed" ->
                    /\ pc' = "loop_destroyed"
                    /\ UNCHANGED shell
              [] OTHER -> UNCHANGED <<shell, pc>>
    /\ UNCHANGED <<env, panic_site, vk_version, negotiation, result, context,
                   native, cb_args>>

Next ==
    \/ LoadEntry
    \/ QueryVersion
    \/ NegotiateExtensions
    \/ NegotiateLayers
    \/ CreateInstance
    \/ CreateDebugMessenger
    \/ TestDebugCallback
    \/ CreateSurface
    \/ MainUnwrap
    \/ HandleEvent
    \/ Drop

Spec == Init /\ [][Next]_vars

(* ------------------- the callback, invoked natively ------------------ *)

\* the byte strings a native message may carry: ASCII, with a byte 0xFF,
\* a two-byte UTF-8 char, a truncated three-byte sequence
NativeStrings ==
    { NullPtr, Ptr(<<>>), Ptr(TestMessage), Ptr(<<116, 255>>),
      Ptr(<<195, 169>>), Ptr(<<226, 130>>) }

\* any bit pattern of severity flags, "UNDEFINED" standing for the bits the
\* API does not define
SeverityBits == Severities \cup {"UNDEFINED"}

CallbackArgs ==
    [message_severity : SUBSET SeverityBits,
     message_type : (SUBSET MessageTypes) \ {{}},
     p_message_id_name : {NullPtr, Ptr(TestIdName)},
     p_message : NativeStrings,
     message_id_number : {0, 1}]

InitDispatch ==
    /\ max_level \in LevelFilters
    /\ platform_extensions = <<>>
    /\ ext_props = <<>>
    /\ layer_props = <<>>
    /\ pc = "callback"
    /\ cb_args \in CallbackArgs
    /\ Fresh

\* one native call of vulkan_debug_callback with the arguments cb_args; the
\* panic of unreachable!() inside an extern "system" fn either aborts at the
\* boundary or unwinds into the caller, depending on the toolchain
InvokeCallback ==
    /\ pc = "callback"
    /\ LET r == vulkan_debug_callback(cb_args.message_severity,
                                      cb_args.message_type, cb_args)
       IN IF r.panicked
          THEN /\ pc' \in {"aborted", "unwound"}
               /\ panic_site' = "callback"
               /\ log' = log
          ELSE /\ pc' = "callback_returned"
               /\ panic_site' = panic_site
               /\ log' = log \o r.entries
    /\ UNCHANGED <<env, shell, vk_version, negotiation, result, context, native,
                   cb_args>>

NextDispatch == InvokeCallback

SpecDispatch == InitDispatch /\ [][NextDispatch]_vars

(* ============================ properties ============================= *)

\* the names a report contains
Reported(props) == { props[i] : i \in 1..Len(props) }

\* the required extension sequence R: the platform's names, then debug utils
RequiredExts == Append(platform_extensions, DebugUtilsName)

\* R \ A, order of R kept, by equality of the names
AbsentExts == SelectSeq(RequiredExts, LAMBDA n : n \notin Reported(ext_props))
AbsentLayers ==
    SelectSeq(<<ValidationLayerName>>, LAMBDA n : n \notin Reported(layer_props))

MissingErrors == {"MissingExtension", "MissingLayer", "MissingExtensionAndLayer"}

EarlyPanic ==
    /\ pc = "panicked"
    /\ panic_site \in {"version", "required_extensions",
                       "extension_properties", "layer_properties"}

\* the extension check has run
ExtensionsChecked ==
    \/ pc \in {"layers", "returned", "create_instance", "create_messenger",
               "self_test", "create_surface", "constructed", "run", "event_loop", "loop_destroyed", "dropped"}
       /\ result # "UnableToLoadLib"
    \/ pc = "panicked" /\ panic_site \in {"layer_properties", "surface",
                                          "callback"}
    \/ pc = "panicked" /\ panic_site = "main_unwrap"
       /\ result # "UnableToLoadLib"

\* both checks have run and the outcome has been chosen
NegotiationDone ==
    /\ ExtensionsChecked
    /\ pc # "layers"
    /\ ~EarlyPanic

InstanceCreationReached ==
    pc = "create_instance" \/ \E i \in 1..Len(native_calls) :
                                 native_calls[i] = "create_instance"

\* new has returned the error e (on which main's unwrap then panics)
ReturnedErr(e) ==
    /\ result = e
    /\ pc = "returned" \/ (pc = "panicked" /\ panic_site = "main_unwrap")

\* C1: the outcome of the negotiation follows the table: extensions and
\* layers missing -> MissingExtensionAndLayer; only a layer -> MissingLayer;
\* only an extension -> MissingExtension; nothing missing -> instance
\* creation is reached and none of the three missing-* errors is returned.
C1_OutcomeTable ==
    NegotiationDone =>
        LET e == AbsentExts # <<>>
            l == AbsentLayers # <<>>
        IN /\ (e /\ l) => ReturnedErr("MissingExtensionAndLayer")
           /\ (~e /\ l) => ReturnedErr("MissingLayer")
           /\ (e /\ ~l) => ReturnedErr("MissingExtension")
           /\ (~e /\ ~l) =>
                 /\ result \notin MissingErrors
                 /\ InstanceCreationReached

C1_Witness ==
    /\ pc = "returned"
    /\ result = "MissingExtensionAndLayer"
    /\ AbsentExts # <<>>
    /\ AbsentLayers # <<>>

\* C2: a MissingExtension-class failure is reported iff some name of R is
\* not in A under exact equality, and the computed missing list is exactly
\* the names of R not in A, in the order of R.
C2_MissingExtensions ==
    /\ ExtensionsChecked =>
          /\ exts_missing_names = AbsentExts
          /\ exts_missing <=> (\E i \in 1..Len(RequiredExts) :
                                  RequiredExts[i] \notin Reported(ext_props))
    /\ NegotiationDone =>
          (result \in {"MissingExtension", "MissingExtensionAndLayer"}
             <=> ~(Reported(RequiredExts) \subseteq Reported(ext_props)))
    /\ result \in {"MissingExtension", "MissingExtensionAndLayer"}
          => NegotiationDone

\* the driver reports a name that differs from a required one in case only,
\* and that required name is the one reported missing
C2_Witness ==
    /\ pc = "returned"
    /\ result = "MissingExtension"
    /\ LowerDebugUtilsName \in Reported(ext_props)
    /\ ShortDebugUtilsName \in Reported(ext_props)
    /\ exts_missing_names = <<DebugUtilsName>>

\* C9 (as claimed): when a missing-* error is returned, the log holds
\* exactly one error line per missing extension, in the order of the
\* required list, followed by one error line per missing layer, and nothing
\* else.
C9_MissingLogged ==
    (pc = "returned" /\ result \in MissingErrors) =>
        LET me == AbsentExts
            ml == AbsentLayers
        IN /\ Len(log) = Len(me) + Len(ml)
           /\ \A i \in 1..Len(log) : log[i].level = "Error"
           /\ \A i \in 1..Len(me) :
                 /\ log[i].text = "Missing extension"
                 /\ log[i].name = me[i]
           /\ \A j \in 1..Len(ml) :
                 /\ log[Len(me) + j].text = "Missing layer"
                 /\ log[Len(me) + j].name = ml[j]

\* C9 (amended): when a missing-* error is returned and the logger's
\* maximum level is not off, the log holds exactly one error line per
\* missing extension, in the order of the required list, followed by one
\* error line per missing layer, and nothing else; with a maximum of off
\* the log is empty.
C9_MissingLoggedUnlessOff ==
    (pc = "returned" /\ result \in MissingErrors) =>
        IF max_level = "Off"
        THEN log = <<>>
        ELSE LET me == AbsentExts
                 ml == AbsentLayers
             IN /\ Len(log) = Len(me) + Len(ml)
                /\ \A i \in 1..Len(log) : log[i].level = "Error"
                /\ \A i \in 1..Len(me) :
                      /\ log[i].text = "Missing extension"
                      /\ log[i].name = me[i]
                /\ \A j \in 1..Len(ml) :
                      /\ log[Len(me) + j].text = "Missing layer"
                      /\ log[Len(me) + j].name = ml[j]

\* two extensions and the layer are missing, and all three are in the log
C9_Witness ==
    /\ pc = "returned"
    /\ result = "MissingExtensionAndLayer"
    /\ max_level = "Error"
    /\ Len(AbsentExts) = 2
    /\ Len(log) = 3

Count(calls, name) ==
    Cardinality({ i \in 1..Len(calls) : calls[i] = name })

DestroyNames ==
    {"destroy_debug_utils_messenger", "destroy_surface", "destroy_instance"}

\* the native destroy calls made so far, in order
Destroys == SelectSeq(native_calls, LAMBDA c : c \in DestroyNames)

\* C3 (as claimed): whenever RenderContext::new fails, by an error return or
\* by a panic, no RenderContext exists and no native object created during
\* the attempt is left undestroyed.
C3_AllOrNothing ==
    ((pc = "returned" /\ result # "Ok") \/ pc = "panicked") =>
        /\ ~context.exists
        /\ live = {}

\* C4: dropping a constructed RenderContext makes the destroy calls
\* messenger -> surface -> instance, each once, without the messenger call
\* when no messenger was attached; nothing is destroyed before the drop,
\* and nothing that was never created is destroyed.
C4_TeardownOrder ==
    /\ pc # "dropped" => Destroys = <<>>
    /\ pc = "dropped" =>
          /\ Destroys =
                IF messenger_result = "Ok"
                THEN <<"destroy_debug_utils_messenger", "destroy_surface",
                       "destroy_instance">>
                ELSE <<"destroy_surface", "destroy_instance">>
          /\ \A i \in 1..Len(native_calls) :
                native_calls[i] = "destroy_instance" =>
                   \A j \in 1..Len(native_calls) :
                      native_calls[j] \in DestroyNames => j <= i
          /\ live = {}

C4_Witness ==
    /\ pc = "dropped"
    /\ messenger_result = "Ok"
    /\ Len(Destroys) = 3

\* the instance was created, so the severity mask has been computed
MaskComputed ==
    \/ pc \in {"create_messenger", "self_test", "create_surface",
               "constructed", "run", "event_loop", "loop_destroyed", "dropped"}
    \/ pc = "panicked" /\ panic_site \in {"surface", "callback"}

\* the log levels each configured maximum lets through
PermittedLevels ==
    [Off   |-> {},
     Error |-> {"Error"},
     Warn  |-> {"Error", "Warn"},
     Info  |-> {"Error", "Warn", "Info"},
     Debug |-> {"Error", "Warn", "Info", "Debug"},
     Trace |-> {"Error", "Warn", "Info", "Debug", "Trace"}]

\* the log level that matches each native severity
MatchingLevel ==
    [ERROR |-> "Error", WARNING |-> "Warn", INFO |-> "Info",
     VERBOSE |-> "Trace"]

\* the native severities more severe than s
MoreSevere(s) ==
    CASE s = "VERBOSE" -> {"INFO", "WARNING", "ERROR"}
      [] s = "INFO"    -> {"WARNING", "ERROR"}
      [] s = "WARNING" -> {"ERROR"}
      [] s = "ERROR"   -> {}

\* C5: the severity mask holds a native severity exactly when the configured
\* maximum level permits the matching log level, and with a severity it
\* holds every more severe one.
C5_SeverityMask ==
    MaskComputed =>
        /\ debug_messenger_log_level \subseteq Severities
        /\ \A s \in Severities :
              s \in debug_messenger_log_level
                 <=> MatchingLevel[s] \in PermittedLevels[max_level]
        /\ \A s \in debug_messenger_log_level :
              MoreSevere(s) \subseteq debug_messenger_log_level

\* a maximum of debug: info is in the mask with all above it, verbose is not
C5_Witness ==
    /\ pc = "create_messenger"
    /\ max_level = "Debug"
    /\ debug_messenger_log_level = {"ERROR", "WARNING", "INFO"}

\* the self-test has run
SelfTestDone ==
    \/ pc \in {"create_surface", "constructed", "run", "event_loop", "loop_destroyed", "dropped"}
    \/ pc = "panicked" /\ panic_site = "surface"

\* the log entries the callback made
VulkanEntries == SelectSeq(log, LAMBDA e : e.text = "vulkan debug utils.")

SeverityOf(m) == CHOOSE s \in Severities : m.message_severity = {s}

\* C6 (as claimed): the self-test leaves exactly four callback entries in
\* the log, at the levels error, warn, info, trace in that order, each with
\* the submitted category, identifier name, number and text.
C6_FourEntries ==
    SelfTestDone =>
        /\ Len(VulkanEntries) = 4
        /\ \A i \in 1..Len(VulkanEntries) :
              /\ VulkanEntries[i].level =
                    <<"Error", "Warn", "Info", "Trace">>[i]
              /\ VulkanEntries[i].type = submitted[i].message_type
              /\ VulkanEntries[i].id_name = TestIdName
              /\ VulkanEntries[i].id_num = 1
              /\ VulkanEntries[i].message = TestMessage

\* the submitted messages that reach the callback: all of them when a
\* messenger is attached and the configured maximum permits their level
Delivered ==
    SelectSeq(submitted,
              LAMBDA m : /\ messenger_result = "Ok"
                         /\ MatchingLevel[SeverityOf(m)]
                               \in PermittedLevels[max_level])

\* C6 (amended): the self-test leaves one callback entry per submitted
\* message whose severity the configured maximum permits, provided the
\* messenger was attached, and none otherwise; each entry is at the level
\* matching its severity and carries the submitted category, identifier
\* name, number and text; there are four only with a messenger and a
\* maximum of trace.
C6_RoutedEntries ==
    SelfTestDone =>
        /\ Len(VulkanEntries) = Len(Delivered)
        /\ \A i \in 1..Len(VulkanEntries) :
              /\ VulkanEntries[i].level =
                    MatchingLevel[SeverityOf(Delivered[i])]
              /\ VulkanEntries[i].type = Delivered[i].message_type
              /\ VulkanEntries[i].id_name = TestIdName
              /\ VulkanEntries[i].id_num = 1
              /\ VulkanEntries[i].message = TestMessage
        /\ Len(VulkanEntries) = 4
              <=> (messenger_result = "Ok" /\ max_level = "Trace")

\* a messenger and a maximum of warn: two entries, error and warn
C6_Witness ==
    /\ pc = "create_surface"
    /\ messenger_result = "Ok"
    /\ max_level = "Warn"
    /\ Len(VulkanEntries) = 2
    /\ VulkanEntries[2].level = "Warn"

\* C7 (as claimed): the self-test submits a message for every pair of a
\* severity and a category.
C7_EveryPair ==
    SelfTestDone =>
        \A s \in Severities : \A t \in MessageTypes :
            \E i \in 1..Len(submitted) :
                /\ submitted[i].message_severity = {s}
                /\ submitted[i].message_type = {t}

\* C7 (amended): the self-test submits exactly four messages, one at each
\* severity, as (error, general), (warning, performance), (info,
\* validation), (verbose, general): every category is used, not every pair.
C7_FourSubmissions ==
    /\ ~SelfTestDone /\ pc # "panicked" /\ pc # "self_test"
          => submitted = <<>>
    /\ SelfTestDone =>
          /\ Len(submitted) = 4
          /\ Count(native_calls, "submit_debug_utils_message") = 4
          /\ \A s \in Severities :
                Cardinality({ i \in 1..Len(submitted) :
                                submitted[i].message_severity = {s} }) = 1
          /\ \A t \in MessageTypes :
                \E i \in 1..Len(submitted) : submitted[i].message_type = {t}
          /\ { <<SeverityOf(submitted[i]), submitted[i].message_type>> :
                  i \in 1..Len(submitted) }
                = { <<"ERROR", {"GENERAL"}>>, <<"WARNING", {"PERFORMANCE"}>>,
                    <<"INFO", {"VALIDATION"}>>, <<"VERBOSE", {"GENERAL"}>> }

C7_Witness ==
    /\ pc = "create_surface"
    /\ messenger_result = "Ok"
    /\ Len(submitted) = 4

\* C8: the messenger is created by exactly one call, and when that call
\* fails no error is returned for it: once the surface is created new
\* returns Ok with a context that records no messenger.
C8_SinkFailureNonFatal ==
    /\ Count(native_calls, "create_debug_utils_messenger")
          = (IF messenger_result = "NotAttempted" THEN 0 ELSE 1)
    /\ MaskComputed /\ pc # "create_messenger"
          => messenger_result # "NotAttempted"
    /\ messenger_result = "Err" =>
          /\ result \in {"None", "Ok"}
          /\ "messenger" \notin live
          /\ debug_callback = "None"
          /\ "surface" \in live =>
                /\ pc \in {"constructed", "run", "event_loop",
                          "loop_destroyed"}
                /\ result = "Ok"
                /\ context = [exists |-> TRUE, debug_callback |-> "None"]

C8_Witness ==
    /\ pc = "constructed"
    /\ messenger_result = "Err"
    /\ result = "Ok"
    /\ context.exists

ValidSeverities == { {"ERROR"}, {"WARNING"}, {"INFO"}, {"VERBOSE"} }

\* C10: a call of the callback ends in a panic exactly when the severity is
\* not one of the four single severities, and then nothing is logged; with
\* one of the four it returns after calling the log macro of the matching
\* level, which emits one entry when the maximum level permits that level.
C10_ExactlyFourSeverities ==
    pc # "callback" =>
        /\ pc \in {"aborted", "unwound"}
              <=> cb_args.message_severity \notin ValidSeverities
        /\ pc \in {"aborted", "unwound"} => log = <<>>
        /\ pc = "callback_returned" =>
              IF MatchingLevel[SeverityOf(cb_args)]
                    \in PermittedLevels[max_level]
              THEN /\ Len(log) = 1
                   /\ log[1].level = MatchingLevel[SeverityOf(cb_args)]
                   /\ log[1].type = cb_args.message_type
              ELSE log = <<>>

\* two severity bits at once
C10_Witness ==
    /\ pc = "aborted"
    /\ cb_args.message_severity = {"ERROR", "WARNING"}
    /\ log = <<>>

====
